---------------------------- MODULE Spec2Model ----------------------------
(***************************************************************************)
(* Replication engine of sydent: the Pusher's periodic, per-peer drain     *)
(* loop (sydent/replication/pusher.py) and the peers it pushes to          *)
(* (sydent/replication/peer.py).                                           *)
(*                                                                         *)
(* Twisted runs the code cooperatively on one thread, so every action      *)
(* below is one handler run from where it is resumed to its next `yield`   *)
(* (or its end).  _push_to_peer has two suspension points: the             *)
(* `yield p.pushUpdates(...)` of line 144 and the                          *)
(* `yield self.peerStore.setLastSentIdAndPokeSucceeded(...)` of line 149.  *)
(*                                                                         *)
(* Reading of pusher.py: _push_to_peer is written at class level without   *)
(* `self` and leaves the guard with `continue`; the model takes it as the  *)
(* per-peer routine that scheduledPush fires for each peer, closing over   *)
(* self and join_token_store, and takes `continue` as leaving the routine. *)
(*                                                                         *)
(* The stores (LocalAssociationStore, JoinTokenStore, PeerStore) are not   *)
(* part of the two files; they are modelled from their documented          *)
(* interfaces.  Row ids of a store are 1..rows[c].                         *)
(***************************************************************************)
EXTENDS Integers, Sequences, FiniteSets, TLC

\* ------------------------------------------------------------------ bounds
MaxRows == 3      \* rows the local write path inserts, over all categories

\* --------------------------------------------------------------- constants
\* pusher.py:32-34 set these to 100; the model scales them down so that a
\* backlog needs more than one batch.
EPHEMERAL_PUBLIC_KEYS_PUSH_LIMIT == 2
INVITE_TOKENS_PUSH_LIMIT == 2
ASSOCIATIONS_PUSH_LIMIT == 2

Peers == {"p1", "p2"}     \* the peers a deployment may register
Times == {"t1"}     \* readings of the clock time_msec()
Cats == {"sg_assocs", "invite_tokens", "ephemeral_public_keys"}

\* Python's None for an `int|None` max id: the empty option.
None == {}
Some(x) == {x}
TheId(o) == CHOOSE x \in o : TRUE

VARIABLES
    peers,                \* the peers PeerStore.getAllPeers() returns
    rows,                 \* rows[c]: number of rows of local store c (ids 1..rows[c])
    lastSent,             \* lastSent[p][c]: the peer's lastSent*Id cursor, as persisted
    lastPokeSucceededAt,  \* lastPokeSucceededAt[p]: time of the last confirmed push 
    healthy,              \* TRUE from the point on where deliveries and stores no longer fail
    is_being_pushed_to,   \* is_being_pushed_to[p]: the in-memory single-flight flag
    sessions,             \* sessions[p]: the _push_to_peer routines suspended at a yield
    sentUnconfirmed,      \* history: ids of c that got behind p's cursor without
                          \* having been in a batch p acknowledged
    done,                 \* history: how the last ended session of p went
    remotePush,           \* remotePush[k]: the k-th RemotePeer.pushUpdates call and its deferreds
    verifyCall,           \* a RemotePeer.verifySignedAssociation call: its record and outcome
    localAssocs,          \* the local association store: row id i holds localAssocs[i]
    globalAssocs,         \* the global association store: the mapping of each address
    localPeer,            \* the LocalPeer object: its lastId
    localCall,            \* history: the last LocalPeer.pushUpdates call and its store operations
    shadowHs,             \* sydent.shadow_hs_master and sydent.shadow_hs_slave
    lastSentAssocsId,     \* lastSentAssocsId[p] of the association rows with content
    sgBatch               \* sgBatch[p]: the sg_assocs a session of p handed to pushUpdates

\* The state of the drain loop, and the state of the peers' own operations
\* (peer.py), which the specifications further down exercise on their own.
pusherVars == <<peers, rows, lastSent, lastPokeSucceededAt, healthy,
                is_being_pushed_to, sessions, sentUnconfirmed, done>>
localVars == <<localAssocs, globalAssocs, localPeer, localCall>>
signVars == <<shadowHs, lastSentAssocsId, sgBatch>>
peerVars == <<remotePush, verifyCall, localVars, signVars>>
vars == <<pusherVars, peerVars>>

\* No operation of a peer is under way.
RemoteIdle == remotePush = << >>
VerifyIdle == verifyCall = << >>
LocalIdle ==
    localAssocs = << >> /\ globalAssocs = << >> /\ localPeer = << >> /\ localCall = << >>
SignIdle == shadowHs = << >> /\ lastSentAssocsId = << >> /\ sgBatch = << >>
PeerIdle == RemoteIdle /\ VerifyIdle /\ LocalIdle /\ SignIdle
\* What a specification of one operation leaves alone.
RemoteFrame == <<pusherVars, verifyCall, localVars, signVars>>
VerifyFrame == <<pusherVars, remotePush, localVars, signVars>>
LocalFrame == <<pusherVars, remotePush, verifyCall>>

Max(S) == CHOOSE x \in S : \A y \in S : y <= x
Sum3(f) == f["sg_assocs"] + f["invite_tokens"] + f["ephemeral_public_keys"]
CeilDiv(n, d) == (n + d - 1) \div d
RemoveAt(s, i) == SubSeq(s, 1, i - 1) \o SubSeq(s, i + 1, Len(s))

\* ---------------------------------------------------------------- stores
\* `select ... where id > afterId order by id limit ?`: the `limit` smallest
\* ids above afterId, and the largest of them (None when there is none).
getAfterId(c, afterId, limit) ==
    LET above == {i \in 1..rows[c] : i > afterId}
        got == {i \in above : Cardinality({j \in above : j < i}) < limit}
    IN [rows |-> got, maxId |-> IF got = {} THEN None ELSE Some(Max(got))]

getAssociationsAfterId(afterId, limit) == getAfterId("sg_assocs", afterId, limit)
getInviteTokensAfterId(afterId, limit) == getAfterId("invite_tokens", afterId, limit)
getEphemeralPublicKeysAfterId(afterId, limit) ==
    getAfterId("ephemeral_public_keys", afterId, limit)

\* Mutant: an empty fetch reports max id 0 instead of None.
getSignedAssociationsAfterId_zero(afterId, limit, sh) ==
    LET r == getAssociationsAfterId(afterId, limit)
    IN [assocs |-> r.rows, maxId |-> IF r.rows = {} THEN Some(0) ELSE r.maxId]

\* pusher.py:63-81.  Every fetched row is signed and keyed by its local id;
\* the second item is the store's max id.
getSignedAssociationsAfterId(afterId, limit, sh) ==
    LET r == getAssociationsAfterId(afterId, limit)
    IN [assocs |-> r.rows, maxId |-> r.maxId]

\* PeerStore.getAllPeers(): the shadow column of the peer's row.
shadow(p) == p = "p2"

\* PeerStore.setLastSentIdAndPokeSucceeded(servername, ids, ts): one update of
\* the peer's row; a category whose max id is None keeps its cursor.
setLastSentIdAndPokeSucceeded(cur, ids) ==
    [c \in Cats |-> IF ids[c] = None THEN cur[c] ELSE TheId(ids[c])]

\* ------------------------------------------------------- _push_to_peer
NoBatch == [c \in Cats |-> {}]

\* Mutants of the guard: no guard at all; one flag for the whole Pusher.
Guard_none(p) == FALSE
Guard_anyPeer(p) == \E q \in Peers : is_being_pushed_to[q]

\* pusher.py:112.  The guard of the routine.
Guard(p) == is_being_pushed_to[p]

\* Mutant: the associations are fetched from the cursor on, not after it.
FetchBatch_fromCursor(cur, sh) ==
    LET a == getSignedAssociationsAfterId(cur["sg_assocs"] - 1, ASSOCIATIONS_PUSH_LIMIT, sh)
        t == getInviteTokensAfterId(cur["invite_tokens"], INVITE_TOKENS_PUSH_LIMIT)
        k == getEphemeralPublicKeysAfterId(cur["ephemeral_public_keys"],
                                           EPHEMERAL_PUBLIC_KEYS_PUSH_LIMIT)
    IN [push_data |-> [c \in Cats |->
                          CASE c = "sg_assocs" -> a.assocs
                            [] c = "invite_tokens" -> t.rows
                            [] OTHER -> k.rows],
        ids |-> [c \in Cats |->
                          CASE c = "sg_assocs" -> a.maxId
                            [] c = "invite_tokens" -> t.maxId
                            [] OTHER -> k.maxId]]

\* pusher.py:122-135.  One fetch of the three categories after the cursors cur.
FetchBatch(cur, sh) ==
    LET a == getSignedAssociationsAfterId(cur["sg_assocs"], ASSOCIATIONS_PUSH_LIMIT, sh)
        t == getInviteTokensAfterId(cur["invite_tokens"], INVITE_TOKENS_PUSH_LIMIT)
        k == getEphemeralPublicKeysAfterId(cur["ephemeral_public_keys"],
                                           EPHEMERAL_PUBLIC_KEYS_PUSH_LIMIT)
    IN [push_data |-> [c \in Cats |->
                          CASE c = "sg_assocs" -> a.assocs
                            [] c = "invite_tokens" -> t.rows
                            [] OTHER -> k.rows],
        ids |-> [c \in Cats |->
                          CASE c = "sg_assocs" -> a.maxId
                            [] c = "invite_tokens" -> t.maxId
                            [] OTHER -> k.maxId]]

\* Mutant: line 135 left out, only the associations are counted.
total_updates_assocsOnly(push_data) == Cardinality(push_data["sg_assocs"])

\* pusher.py:126,130,135.
total_updates(push_data) ==
    Cardinality(push_data["sg_assocs"])
      + Cardinality(push_data["invite_tokens"])
      + Cardinality(push_data["ephemeral_public_keys"])

\* Mutant: the loop never breaks on an empty fetch.
NoUpdatesLeft_never(push_data) == FALSE

\* pusher.py:140.  `if not total_updates: break`
NoUpdatesLeft(push_data) == total_updates(push_data) = 0

\* Mutant: an errback is taken for a result, the routine goes on.
AfterYield_swallow(outcome) == "continue"

\* pusher.py:144-151.  Where the routine goes on when the deferred it yielded
\* on fires: past the yield on a callback, into the except clause on an errback.
AfterYield(outcome) == IF outcome = "success" THEN "continue" ELSE "except"

\* Mutant: only the association cursor is handed to the persist call.
PersistedCursors_assocsOnly(cur, ids) ==
    setLastSentIdAndPokeSucceeded(cur,
        [c \in Cats |-> IF c = "sg_assocs" THEN ids[c] ELSE None])

\* pusher.py:149.  The cursors the persist call leaves in the peer's row.
PersistedCursors(cur, ids) == setLastSentIdAndPokeSucceeded(cur, ids)

\* Mutants: the flag is cleared after the loop, not in a finally clause; the
\* flag is cleared on the except path only.
FlagAfterSession_noFinally(exit) == exit = "failed"
FlagAfterSession_exceptOnly(exit) == exit # "failed"

\* pusher.py:152-154.  The flag when the routine ends, by exit path.
FlagAfterSession(exit) == FALSE

\* pusher.py:32-34.  The limit of each category's fetch.
Limit(c) ==
    CASE c = "sg_assocs" -> ASSOCIATIONS_PUSH_LIMIT
      [] c = "invite_tokens" -> INVITE_TOKENS_PUSH_LIMIT
      [] OTHER -> EPHEMERAL_PUBLIC_KEYS_PUSH_LIMIT

\* History of a routine: the pushUpdates calls it made, the batches its
\* backlog needed when it started, whether a row was inserted since it started
\* (clean) and since its last fetch (fresh).
NewHistory(p) ==
    [calls |-> 0,
     need |-> Max({CeilDiv(rows[c] - lastSent[p][c], Limit(c)) : c \in Cats}),
     clean |-> TRUE, fresh |-> TRUE]

\* pusher.py:120-144.  The routine from the top of its loop to where it next
\* stops: suspended in pushUpdates ("await"), out of the loop ("drained") or
\* in the except clause ("failed", when a fetch or the call raises).
Iterate(p, cur, h, raises) ==
    LET b == FetchBatch(cur, shadow(p))
    IN IF raises THEN [next |-> "failed"]
       ELSE IF NoUpdatesLeft(b.push_data) THEN [next |-> "drained"]
       ELSE [next |-> "await",
             sess |-> [pc |-> "await", push_data |-> b.push_data, ids |-> b.ids,
                       result |-> "unset", poke |-> "never",
                       h |-> [h EXCEPT !.calls = @ + 1, !.fresh = TRUE]]]

\* The record kept of the last session while no session is running: its exit
\* and, when it drained the backlog, its calls and whether it ran clean.
Ended(exit, h) ==
    [exit |-> exit,
     calls |-> IF exit = "drained" THEN h.calls ELSE 0,
     clean |-> IF exit = "drained" THEN h.clean ELSE TRUE]

NeverRan == [exit |-> "none", calls |-> 0, clean |-> TRUE]

PusherInit ==
    /\ peers = Peers
    /\ rows = [c \in Cats |-> 0]
    /\ lastSent = [p \in Peers |-> [c \in Cats |-> 0]]
    /\ lastPokeSucceededAt = [p \in Peers |-> "never"]
    /\ healthy = FALSE
    /\ is_being_pushed_to = [p \in Peers |-> FALSE]
    /\ sessions = [p \in Peers |-> << >>]
    /\ sentUnconfirmed = [p \in Peers |-> [c \in Cats |-> {}]]
    /\ done = [p \in Peers |-> NeverRan]

Init == PusherInit /\ PeerIdle

\* The local write path appends a row to one of the local stores.
InsertRow(c) ==
    /\ Sum3(rows) < MaxRows
    /\ rows' = [rows EXCEPT ![c] = @ + 1]
    /\ sessions' = [p \in Peers |->
           [i \in 1..Len(sessions[p]) |->
               [sessions[p][i] EXCEPT !.h.clean = FALSE, !.h.fresh = FALSE]]]
    /\ UNCHANGED <<peers, lastSent, lastPokeSucceededAt, healthy,
                   is_being_pushed_to, sentUnconfirmed, done>>
    /\ UNCHANGED peerVars

\* From here on no delivery fails and no store call raises.
Recover ==
    /\ ~healthy
    /\ healthy' = TRUE
    /\ UNCHANGED <<peers, rows, lastSent, lastPokeSucceededAt,
                   is_being_pushed_to, sessions, sentUnconfirmed, done>>
    /\ UNCHANGED peerVars

\* pusher.py:96-144.  One tick of the LoopingCall: for every peer the routine
\* is fired and runs to its first yield; raises are the peers whose fetch or
\* pushUpdates call raises.
scheduledPush(raises) ==
    LET its == [p \in Peers |-> Iterate(p, lastSent[p], NewHistory(p), p \in raises)]
        it(p) == its[p]
    IN /\ raises \subseteq peers
       /\ (raises # {} => ~healthy)
       /\ sessions' = [p \in Peers |->
              IF p \in peers /\ ~Guard(p) /\ it(p).next = "await"
              THEN Append(sessions[p], it(p).sess)
              ELSE sessions[p]]
       /\ is_being_pushed_to' = [p \in Peers |->
              IF p \notin peers \/ Guard(p) THEN is_being_pushed_to[p]
              ELSE IF it(p).next = "await" THEN TRUE
              ELSE FlagAfterSession(it(p).next)]
       /\ done' = [p \in Peers |->
              IF p \notin peers \/ Guard(p) THEN done[p]
              ELSE IF it(p).next = "await" THEN NeverRan
              ELSE Ended(it(p).next, NewHistory(p))]
       /\ UNCHANGED <<peers, rows, lastSent, lastPokeSucceededAt, healthy,
                      sentUnconfirmed>>
    /\ UNCHANGED peerVars

\* pusher.py:150-154.  The routine in session slot i of p ends in its except
\* clause: nothing is persisted, the finally clause sets the flag.
Abort(p, i) ==
    /\ sessions' = [sessions EXCEPT ![p] = RemoveAt(@, i)]
    /\ is_being_pushed_to' = [is_being_pushed_to EXCEPT ![p] = FlagAfterSession("failed")]
    /\ done' = [done EXCEPT ![p] = Ended("failed", sessions[p][i].h)]
    /\ UNCHANGED <<lastSent, lastPokeSucceededAt>>

\* pusher.py:144-149.  Past the yield of line 144: `result` is bound to what
\* the deferred gave, it is logged, time_msec() reads t and the persist call
\* is made.
Continue(p, i, t, result) ==
    /\ sessions' = [sessions EXCEPT ![p][i].pc = "persist", ![p][i].poke = t,
                                    ![p][i].result = result]
    /\ UNCHANGED <<lastSent, lastPokeSucceededAt, is_being_pushed_to, done>>

\* pusher.py:144-149.  The deferred of p.pushUpdates fires its callback.
pushSucceeded(p, i, t) ==
    /\ i \in 1..Len(sessions[p])
    /\ sessions[p][i].pc = "await"
    /\ IF AfterYield("success") = "continue"
       THEN Continue(p, i, t, "response")
       ELSE Abort(p, i)
    /\ UNCHANGED <<peers, rows, healthy, sentUnconfirmed>>
    /\ UNCHANGED peerVars

\* pusher.py:144,150-154.  The deferred of p.pushUpdates fires its errback
\* (non-2xx response or transport error): the yield raises.
pushFailed(p, i, t) ==
    /\ i \in 1..Len(sessions[p])
    /\ sessions[p][i].pc = "await"
    /\ ~healthy
    /\ IF AfterYield("failure") = "continue"
       THEN Continue(p, i, t, "unset")
       ELSE Abort(p, i)
    /\ UNCHANGED <<peers, rows, healthy, sentUnconfirmed>>
    /\ UNCHANGED peerVars

\* pusher.py:149,120-144.  The persist call returns: the peer's row holds the
\* new cursors and the time, and the loop goes round: next fetch, then the
\* next pushUpdates call, the end of the backlog, or an exception.
persistSucceeded(p, i, raises) ==
    /\ i \in 1..Len(sessions[p])
    /\ sessions[p][i].pc = "persist"
    /\ (raises => ~healthy)
    /\ LET s == sessions[p][i]
           cur == PersistedCursors(lastSent[p], s.ids)
           it == Iterate(p, cur, s.h, raises)
       IN /\ lastSent' = [lastSent EXCEPT ![p] = cur]
          /\ sentUnconfirmed' = [sentUnconfirmed EXCEPT ![p] = [c \in Cats |->
                 @[c] \cup {r \in (lastSent[p][c] + 1)..cur[c] :
                               s.result # "response" \/ r \notin s.push_data[c]}]]
          /\ lastPokeSucceededAt' = [lastPokeSucceededAt EXCEPT ![p] = s.poke]
          /\ IF it.next = "await"
             THEN /\ sessions' = [sessions EXCEPT ![p][i] = it.sess]
                  /\ UNCHANGED <<is_being_pushed_to, done>>
             ELSE /\ sessions' = [sessions EXCEPT ![p] = RemoveAt(@, i)]
                  /\ is_being_pushed_to' =
                        [is_being_pushed_to EXCEPT ![p] = FlagAfterSession(it.next)]
                  /\ done' = [done EXCEPT ![p] = Ended(it.next, s.h)]
    /\ UNCHANGED <<peers, rows, healthy>>
    /\ UNCHANGED peerVars

\* pusher.py:149-154.  The persist call raises: the yield raises.
persistFailed(p, i) ==
    /\ i \in 1..Len(sessions[p])
    /\ sessions[p][i].pc = "persist"
    /\ ~healthy
    /\ Abort(p, i)
    /\ UNCHANGED <<peers, rows, healthy, sentUnconfirmed>>
    /\ UNCHANGED peerVars

\* The session slots a step may resume (slot 1 is the only one in use while
\* the guard holds).
Slots == 1..2

Next ==
    \/ \E c \in Cats : InsertRow(c)
    \/ \E raises \in SUBSET Peers : scheduledPush(raises)
    \/ \E p \in Peers, i \in Slots, t \in Times : pushSucceeded(p, i, t)
    \/ \E p \in Peers, i \in Slots, t \in Times : pushFailed(p, i, t)
    \/ \E p \in Peers, i \in Slots, raises \in BOOLEAN : persistSucceeded(p, i, raises)
    \/ \E p \in Peers, i \in Slots : persistFailed(p, i)

Spec == Init /\ [][Next]_vars

\* The same program in an environment that stops failing at some point, with
\* the scheduling Twisted gives: the LoopingCall keeps ticking, and a deferred
\* that can only succeed fires.
NextLive == Next \/ Recover

Fairness ==
    /\ WF_vars(scheduledPush({}))
    /\ WF_vars(\E p \in Peers, i \in Slots, t \in Times : pushSucceeded(p, i, t))
    /\ WF_vars(\E p \in Peers, i \in Slots : persistSucceeded(p, i, FALSE))

\* A deployment with one registered peer.
InitOne ==
    /\ \E p \in Peers : peers = {p}
    /\ rows = [c \in Cats |-> 0]
    /\ lastSent = [p \in Peers |-> [c \in Cats |-> 0]]
    /\ lastPokeSucceededAt = [p \in Peers |-> "never"]
    /\ healthy = FALSE
    /\ is_being_pushed_to = [p \in Peers |-> FALSE]
    /\ sessions = [p \in Peers |-> << >>]
    /\ sentUnconfirmed = [p \in Peers |-> [c \in Cats |-> {}]]
    /\ done = [p \in Peers |-> NeverRan]
    /\ PeerIdle

LiveSpec == InitOne /\ [][NextLive]_vars /\ Fairness

\* ------------------------------------------------- RemotePeer.pushUpdates
\* peer.py:149-184.  pushUpdates posts the batch and returns updateDeferred;
\* the request's deferred and, for a non-2xx response, the body read's
\* deferred fire later, each running its chain of handlers in one go.
MaxCalls == 2       \* pushUpdates calls made

Codes == {199, 200, 204, 299, 300, 404, 500}      \* status codes of a response
Bodies == {"{\"errcode\": \"M_UNKNOWN\"}", "{}", "<html>Bad Gateway</html>", ""}
TransportErrors == {"ConnectionRefusedError", "TimeoutError"}
BodyReadErrors == {"ResponseFailed"}

\* json.loads: the object a JSON text denotes, as its set of members; text
\* that is not JSON raises ValueError.
json_loads(body) ==
    CASE body = "{\"errcode\": \"M_UNKNOWN\"}" ->
             [raised |-> FALSE, value |-> {<<"errcode", "M_UNKNOWN">>}]
      [] body = "{}" -> [raised |-> FALSE, value |-> {}]
      [] OTHER -> [raised |-> TRUE, value |-> {}]

\* What a deferred carries: the response, or a failure wrapping an exception.
Response(code) == [type |-> "response", code |-> code, exc |-> "none", errorDict |-> {}]
Failure(exc) == [type |-> "failure", code |-> 0, exc |-> exc, errorDict |-> {}]
\* peer.py:178-179,196-198.  RemotePeerError with its errorDict.
RemotePeerError(errObj) ==
    [type |-> "failure", code |-> 0, exc |-> "RemotePeerError", errorDict |-> errObj]

\* peer.py:161.  defer.Deferred(): not fired yet.
Unfired == [fires |-> 0, kind |-> "none", result |-> Failure("none")]
\* Deferred.callback / Deferred.errback: the first firing sets the result; a
\* later one raises AlreadyCalledError and is counted.
Fire(d, kind, result) ==
    IF d.fires = 0 THEN [fires |-> 1, kind |-> kind, result |-> result]
    ELSE [d EXCEPT !.fires = @ + 1]

\* Mutant: any status below 400 is taken for a success.
IsSuccessCode_below400(code) == code >= 200 /\ code < 400

\* peer.py:169.
IsSuccessCode(code) == code >= 200 /\ code < 300

\* peer.py:182-184.
RemotePeer_pushFailed(failure, updateDeferred) == Fire(updateDeferred, "errback", failure)

\* peer.py:176-180.  json.loads may raise before errback is reached.
RemotePeer_failedPushBodyRead(body, updateDeferred) ==
    LET errObj == json_loads(body)
    IN IF errObj.raised
       THEN [raised |-> TRUE, failure |-> Failure("ValueError"), d |-> updateDeferred]
       ELSE [raised |-> FALSE, failure |-> Failure("none"),
             d |-> Fire(updateDeferred, "errback", RemotePeerError(errObj.value))]

\* Mutant: line 174 left out, the body read's deferred has no errback.
BodyReadFired_noErrback(read, updateDeferred) ==
    IF read.failed THEN updateDeferred
    ELSE RemotePeer_failedPushBodyRead(read.body, updateDeferred).d

\* peer.py:172-174.  The deferred of readBody fires: its callback is
\* _failedPushBodyRead and, after it, its errback is _pushFailed, which so
\* also gets what the callback raises.
BodyReadFired(read, updateDeferred) ==
    IF read.failed THEN RemotePeer_pushFailed(Failure(read.error), updateDeferred)
    ELSE LET r == RemotePeer_failedPushBodyRead(read.body, updateDeferred)
         IN IF r.raised THEN RemotePeer_pushFailed(r.failure, r.d) ELSE r.d

\* peer.py:168-174.  The deferred to go on with and whether the body is read.
RemotePeer_pushSuccess(result, updateDeferred) ==
    IF IsSuccessCode(result.code)
    THEN [d |-> Fire(updateDeferred, "callback", result), readBody |-> FALSE]
    ELSE [d |-> updateDeferred, readBody |-> TRUE]

NoBody == "(unread)"
\* peer.py:149-166.  The call returns updateDeferred, unfired; nothing in it
\* raises for what the request later does.
RemotePeer_pushUpdates ==
    /\ Len(remotePush) < MaxCalls
    /\ remotePush' = Append(remotePush,
           [phase |-> "request", code |-> 0, body |-> NoBody, error |-> "none",
            raised |-> FALSE, updateDeferred |-> Unfired])
    /\ UNCHANGED RemoteFrame

\* peer.py:163,168-174.  The request's deferred fires with a response.
requestResponded(k, code) ==
    /\ k \in 1..Len(remotePush)
    /\ remotePush[k].phase = "request"
    /\ LET r == RemotePeer_pushSuccess(Response(code), remotePush[k].updateDeferred)
       IN remotePush' = [remotePush EXCEPT
              ![k].code = code,
              ![k].updateDeferred = r.d,
              ![k].phase = IF r.readBody THEN "body" ELSE "end"]
    /\ UNCHANGED RemoteFrame

\* peer.py:164,182-184.  The request's deferred fires with a failure.
requestFailed(k, error) ==
    /\ k \in 1..Len(remotePush)
    /\ remotePush[k].phase = "request"
    /\ remotePush' = [remotePush EXCEPT
           ![k].error = error,
           ![k].updateDeferred = RemotePeer_pushFailed(Failure(error), @),
           ![k].phase = "end"]
    /\ UNCHANGED RemoteFrame

\* peer.py:172-180.  readBody's deferred fires with the body.
bodyRead(k, body) ==
    /\ k \in 1..Len(remotePush)
    /\ remotePush[k].phase = "body"
    /\ remotePush' = [remotePush EXCEPT
           ![k].body = body,
           ![k].updateDeferred =
               BodyReadFired([failed |-> FALSE, body |-> body, error |-> "none"], @),
           ![k].phase = "end"]
    /\ UNCHANGED RemoteFrame

\* peer.py:172-174,182-184.  readBody's deferred fires with a failure.
bodyReadFailed(k, error) ==
    /\ k \in 1..Len(remotePush)
    /\ remotePush[k].phase = "body"
    /\ remotePush' = [remotePush EXCEPT
           ![k].error = error,
           ![k].updateDeferred =
               BodyReadFired([failed |-> TRUE, body |-> NoBody, error |-> error], @),
           ![k].phase = "end"]
    /\ UNCHANGED RemoteFrame

RemoteNext ==
    \/ RemotePeer_pushUpdates
    \/ \E k \in 1..MaxCalls, code \in Codes : requestResponded(k, code)
    \/ \E k \in 1..MaxCalls, error \in TransportErrors : requestFailed(k, error)
    \/ \E k \in 1..MaxCalls, body \in Bodies : bodyRead(k, body)
    \/ \E k \in 1..MaxCalls, error \in BodyReadErrors : bodyReadFailed(k, error)

RemoteSpec == Init /\ [][RemoteNext]_vars

\* ----------------------------------- RemotePeer.verifySignedAssociation
\* peer.py:130-147.  A record is its `signatures` member, when it has one: for
\* each signing server name the key ids in the order the dict lists them; and
\* whether the signature under the peer's verify key, when there, is good.
SIGNING_KEY_ALGORITHM == "ed25519"
ServerNames == {"peer.example", "other.example"}
servername == "peer.example"          \* self.servername of the RemotePeer
\* Key ids a record may carry; one of them has no ":".
KeyIds == {"ed25519:0", "ed25519:1", "ed25519", "rsa:0"}
\* key_id.split(":")[0]
split_colon_0(key_id) == IF key_id = "rsa:0" THEN "rsa" ELSE "ed25519"
\* key_id.startswith(SIGNING_KEY_ALGORITHM + ":")
startswith_alg_colon(key_id) == key_id \in {"ed25519:0", "ed25519:1"}
\* peer.py:124-128.  The key id of self.verify_key: alg "ed25519", version 0.
verify_key_id == "ed25519:0"

Range(f) == {f[x] : x \in DOMAIN f}
\* The orders in which a dict may list its keys.
KeyLists == {l \in UNION {[1..n -> KeyIds] : n \in 0..Cardinality(KeyIds)} :
                \A i, j \in DOMAIN l : i # j => l[i] # l[j]}
Records ==
    {[hasSignatures |-> FALSE, signatures |-> << >>, good |-> FALSE]}
      \cup {[hasSignatures |-> TRUE, signatures |-> sg, good |-> g] :
               sg \in UNION {[S -> KeyLists] : S \in SUBSET ServerNames}, g \in BOOLEAN}

\* signedjson.sign.signature_ids(assoc, name): the key ids under name whose
\* algorithm (the part before ":") is supported, in the dict's order.
RECURSIVE Supported(_)
Supported(l) ==
    IF l = << >> THEN << >>
    ELSE (IF split_colon_0(Head(l)) = SIGNING_KEY_ALGORITHM THEN <<Head(l)>> ELSE << >>)
           \o Supported(Tail(l))
signature_ids(assoc, name) ==
    IF name \in DOMAIN assoc.signatures THEN Supported(assoc.signatures[name]) ELSE << >>

\* signedjson.sign.verify_signed_json(assoc, name, verify_key): the signature
\* under the verify key's id has to be there and to be good.
verify_signed_json(assoc, name) ==
    IF /\ name \in DOMAIN assoc.signatures
       /\ verify_key_id \in Range(assoc.signatures[name])
       /\ assoc.good
    THEN "none" ELSE "SignatureVerifyException"

NoSigs == {}
\* peer.py:140.  Only the first key id listed is looked at.
NoMatchingKeyId(key_ids) ==
    key_ids = << >> \/ Len(key_ids) = 0 \/ ~startswith_alg_colon(key_ids[1])

\* peer.py:130-147.  What the call raises ("none": it returns), what the
\* exception carries, and whether verify_signed_json was called.
verifySignedAssociation(assoc) ==
    IF ~assoc.hasSignatures
    THEN [exc |-> "NoSignaturesException", foundSigs |-> NoSigs,
          requiredServername |-> "", verified |-> FALSE]
    ELSE IF NoMatchingKeyId(signature_ids(assoc, servername))
    THEN [exc |-> "NoMatchingSignatureException", foundSigs |-> DOMAIN assoc.signatures,
          requiredServername |-> servername, verified |-> FALSE]
    ELSE [exc |-> verify_signed_json(assoc, servername), foundSigs |-> NoSigs,
          requiredServername |-> "", verified |-> TRUE]

VerifyInit ==
    /\ PusherInit /\ RemoteIdle /\ LocalIdle /\ SignIdle
    /\ verifyCall \in {<<assoc>> : assoc \in Records}

\* The call is made on the record and ends.
verifyRecord ==
    /\ Len(verifyCall) = 1
    /\ verifyCall' = Append(verifyCall, verifySignedAssociation(verifyCall[1]))
    /\ UNCHANGED VerifyFrame

VerifyNext == verifyRecord

VerifySpec == VerifyInit /\ [][VerifyNext]_vars

\* ------------------------------------------------- LocalPeer.pushUpdates
\* peer.py:53-79.  GlobalAssociationStore and threePidAssocFromDict are not
\* part of the two files; the store is modelled from its documented
\* interface: one mapping per address, upsert, remove, highest id of a server.
MaxBatchId == 3       \* row ids of a batch are 1..MaxBatchId

server_name == "this.example"            \* sydent.server_name
OriginServers == {server_name, "peer.example"}
Addresses == {"a@x.example", "b@x.example"}     \* (medium, address), medium email
Mxids == {"@u:hs.example"}
\* A signed association as pushUpdates gets it: the address and the mxid (None
\* when the address was unbound); its signatures, which LocalPeer does not
\* read, are left out of the batches drawn here.
SgAssocs == [address : Addresses, mxid : {None} \cup {Some(x) : x \in Mxids}]
Batches == UNION {[S -> SgAssocs] : S \in SUBSET (1..MaxBatchId)}
\* The orders in which a dict may list the keys S.
RECURSIVE KeyOrders(_)
KeyOrders(S) ==
    IF S = {} THEN {<< >>}
    ELSE UNION {{<<x>> \o o : o \in KeyOrders(S \ {x})} : x \in S}

IsKeyOrder(order, S) ==
    /\ DOMAIN order = 1..Cardinality(S)
    /\ {order[i] : i \in DOMAIN order} = S

NoMapping == [mxid |-> None, originServer |-> "", originId |-> 0]
Mapping(mxid, originServer, originId) ==
    [mxid |-> mxid, originServer |-> originServer, originId |-> originId]
\* GlobalAssociationStore.addAssociation(assoc, raw, originServer, originId).
addAssociation(store, assoc, originServer, originId) ==
    [store EXCEPT ![assoc.address] = Mapping(assoc.mxid, originServer, originId)]
\* GlobalAssociationStore.removeAssociation(medium, address).
removeAssociation(store, address) == [store EXCEPT ![address] = NoMapping]
\* GlobalAssociationStore.lastIdFromServer(server): None when it has no row.
lastIdFromServer(store, server) ==
    LET ids == {store[a].originId : a \in {a \in Addresses : store[a].originServer = server}}
    IN IF ids = {} THEN None ELSE Some(Max(ids))

\* sydent.threepid.threePidAssocFromDict: the association object of a signed
\* association; the signatures are not part of it.
threePidAssocFromDict(sgAssoc) == [address |-> sgAssoc.address, mxid |-> sgAssoc.mxid]

\* Mutant: the re-delivery guard is left out.
IsNewer_always(localId, lastId) == TRUE

\* peer.py:69.
IsNewer(localId, lastId) == localId > lastId

\* Mutant: every entry is added, also one without mxid.
HasMxid_always(assocObj) == TRUE

\* peer.py:71.
HasMxid(assocObj) == assocObj.mxid # None

\* peer.py:69-76.  One pass of the loop body: the store after it and the
\* store operation it made, if any (with whether the address was mapped before
\* and is mapped after).
ApplyEntry(store, sgAssocs, localId, lastId) ==
    IF ~IsNewer(localId, lastId) THEN [store |-> store, ops |-> << >>]
    ELSE LET assocObj == threePidAssocFromDict(sgAssocs[localId])
             after == IF HasMxid(assocObj)
                      THEN addAssociation(store, assocObj, server_name, localId)
                      ELSE removeAssociation(store, assocObj.address)
         IN [store |-> after,
             ops |-> << [localId |-> localId,
                         op |-> IF HasMxid(assocObj) THEN "addAssociation"
                                ELSE "removeAssociation",
                         address |-> assocObj.address,
                         had |-> store[assocObj.address] # NoMapping,
                         has |-> after[assocObj.address] # NoMapping,
                         others |-> \A a \in Addresses \ {assocObj.address} :
                                       after[a] = store[a]] >>]

\* peer.py:66-79.  `for localId in sgAssocs` goes through the keys in the
\* order the dict lists them, which is `order` here.
RECURSIVE ApplyAll(_, _, _, _)
ApplyAll(store, sgAssocs, order, lastId) ==
    IF order = << >> THEN [store |-> store, ops |-> << >>]
    ELSE LET one == ApplyEntry(store, sgAssocs, Head(order), lastId)
             rest == ApplyAll(one.store, sgAssocs, Tail(order), lastId)
         IN [store |-> rest.store, ops |-> one.ops \o rest.ops]

\* The record of a call: what it was given and did, and what its deferred
\* gave (defer.succeed(True), line 78).
CallRecord(n, sgAssocs, order, lastId, ops) ==
    [n |-> n, sgAssocs |-> sgAssocs, order |-> order, lastId |-> lastId, ops |-> ops,
     deferred |-> [fires |-> 1, kind |-> "callback", result |-> TRUE]]
NoCall == CallRecord(0, << >>, << >>, -1, << >>)

\* peer.py:66-79.  pushUpdates of the batch sgAssocs; a second call delivers
\* the same batch again.
LocalPeer_pushUpdates(sgAssocs, order) ==
    /\ localCall.n < 2
    /\ localCall.n = 1 => (sgAssocs = localCall.sgAssocs /\ order = localCall.order)
    /\ LET r == ApplyAll(globalAssocs, sgAssocs, order, localPeer.lastId)
       IN /\ globalAssocs' = r.store
          /\ localCall' = CallRecord(localCall.n + 1, sgAssocs, order, localPeer.lastId, r.ops)
    /\ UNCHANGED <<localAssocs, localPeer, LocalFrame, signVars>>

\* Any state of the global store (each address unmapped, or mapped by a row
\* of this server or of a peer) and any LocalPeer.
LocalApplyInit ==
    /\ PusherInit /\ RemoteIdle /\ VerifyIdle /\ SignIdle
    /\ localAssocs = << >>
    /\ globalAssocs \in [Addresses ->
           {NoMapping} \cup {Mapping(Some(x), o, 1) : x \in Mxids, o \in OriginServers}]
    /\ localPeer \in {[lastId |-> i] : i \in {-1} \cup 1..MaxBatchId}
    /\ localCall = NoCall

\* A batch is delivered, and may be delivered once more.
LocalApplyNext ==
    \/ /\ localCall.n = 0
       /\ \E sgAssocs \in Batches : \E order \in KeyOrders(DOMAIN sgAssocs) :
              LocalPeer_pushUpdates(sgAssocs, order)
    \/ /\ localCall.n = 1
       /\ LocalPeer_pushUpdates(localCall.sgAssocs, localCall.order)

LocalApplySpec == LocalApplyInit /\ [][LocalApplyNext]_vars

\* ---------------------------------------------------- Pusher.doLocalPush
\* pusher.py:46-94 over association rows with their content: row id i of the
\* local store holds localAssocs[i], an address and an mxid (None: unbound).
MaxLocalRows == 3     \* rows the local write path appends

\* LocalAssociationStore.getAssociationsAfterId(afterId, limit): the rows
\* above afterId, the `limit` lowest of them when a limit is given, as fresh
\* association objects keyed by row id, and the highest id returned.
LocalAssociationStore_getAssociationsAfterId(afterId, limit) ==
    LET above == {i \in 1..Len(localAssocs) : i > afterId}
        got == IF limit = None THEN above
               ELSE {i \in above : Cardinality({j \in above : j < i}) < TheId(limit)}
    IN [localAssocs |-> [i \in got |-> localAssocs[i]],
        maxId |-> IF got = {} THEN None ELSE Some(Max(got))]

\* str.replace(":" + shadow_hs_master, ":" + shadow_hs_slave): every
\* occurrence of the master's name after a ":" becomes the slave's.
replace_master_slave(mxid) ==
    CASE mxid = "@u:master.example" -> "@u:slave.example"
      [] mxid = "@u:master.example:8448" -> "@u:slave.example:8448"
      [] OTHER -> mxid

\* Mutant: the rewrite is made whenever the shadow hosts are configured.
ShadowRewrites_anyPeer(sh, assoc) ==
    shadowHs.master # None /\ shadowHs.slave # None /\ assoc.mxid # None

\* pusher.py:71-73.  `if shadow and shadow_hs_master and shadow_hs_slave` and
\* `if assoc.mxid`.
ShadowRewrites(sh, assoc) ==
    sh /\ shadowHs.master # None /\ shadowHs.slave # None /\ assoc.mxid # None

\* pusher.py:70-77.  The association object after the loop body's rewrite.
ShadowRewritten(sh, assoc) ==
    IF ShadowRewrites(sh, assoc)
    THEN [assoc EXCEPT !.mxid = Some(replace_master_slave(TheId(assoc.mxid)))]
    ELSE assoc

\* Signer.signedThreePidAssociation(assoc): the association as a dict with
\* this server's signature over its content.
signedThreePidAssociation(assoc) ==
    [address |-> assoc.address, mxid |-> assoc.mxid,
     signatures |-> [signer |-> server_name,
                     over |-> [address |-> assoc.address, mxid |-> assoc.mxid]]]

\* Mutant: the association is signed as fetched, the rewritten mxid is put
\* into the signed dict afterwards.
SignedEntry_signFirst(sh, assoc) ==
    [signedThreePidAssociation(assoc) EXCEPT !.mxid = ShadowRewritten(sh, assoc).mxid]

\* pusher.py:70-79.  The loop body: rewrite, then sign.
SignedEntry(sh, assoc) == signedThreePidAssociation(ShadowRewritten(sh, assoc))

\* pusher.py:46-81 with the rows' content.
Pusher_getSignedAssociationsAfterId(afterId, limit, sh) ==
    LET r == LocalAssociationStore_getAssociationsAfterId(afterId, limit)
    IN [assocs |-> [localId \in DOMAIN r.localAssocs |->
                       SignedEntry(sh, r.localAssocs[localId])],
        maxId |-> r.maxId]

\* peer.py:57-64.  LocalPeer(sydent).
LocalPeer_init ==
    LET lastId == lastIdFromServer(globalAssocs, server_name)
    IN [lastId |-> IF lastId = None THEN -1 ELSE TheId(lastId)]

\* Mutant: the local push is limited like a push to a remote peer.
LocalPushLimit_batch == Some(ASSOCIATIONS_PUSH_LIMIT)

\* pusher.py:92.  The limit doLocalPush passes: None.
LocalPushLimit == None

\* The row ids doLocalPush finds pending.
PendingIds ==
    DOMAIN LocalAssociationStore_getAssociationsAfterId(LocalPeer_init.lastId,
                                                        LocalPushLimit).localAssocs

\* The local write path appends an association row (a bind, or an unbind
\* when mxid is None).
writeAssociation(address, mxid) ==
    /\ Len(localAssocs) < MaxLocalRows
    /\ localAssocs' = Append(localAssocs, [address |-> address, mxid |-> mxid])
    /\ UNCHANGED <<globalAssocs, localPeer, localCall, LocalFrame, signVars>>

\* pusher.py:83-94.  doLocalPush, from its call to its return: it has no
\* yield.  `order` is the order in which the dict of signed associations
\* lists its keys.
doLocalPush(order) ==
    LET lp == LocalPeer_init
        signedAssocs == Pusher_getSignedAssociationsAfterId(lp.lastId, LocalPushLimit, FALSE).assocs
        r == ApplyAll(globalAssocs, signedAssocs, order, lp.lastId)
    IN /\ IsKeyOrder(order, DOMAIN signedAssocs)
       /\ localPeer' = lp
       /\ globalAssocs' = r.store
       /\ localCall' = CallRecord(1, signedAssocs, order, lp.lastId, r.ops)
       /\ UNCHANGED <<localAssocs, LocalFrame, signVars>>

\* The global store holds what peers have replicated to this server.
DoLocalPushInit ==
    /\ PusherInit /\ RemoteIdle /\ VerifyIdle /\ SignIdle
    /\ localAssocs = << >>
    /\ globalAssocs \in [Addresses ->
           {NoMapping} \cup {Mapping(Some(x), "peer.example", 1) : x \in Mxids}]
    /\ localPeer = [lastId |-> -1]
    /\ localCall = NoCall

DoLocalPushNext ==
    \/ \E address \in Addresses, mxid \in {None} \cup {Some(x) : x \in Mxids} :
           writeAssociation(address, mxid)
    \/ \E order \in KeyOrders(PendingIds) : doLocalPush(order)

DoLocalPushSpec == DoLocalPushInit /\ [][DoLocalPushNext]_vars

\* ------------------------------------ sessions over the rows' content
\* pusher.py:120-154 for the association rows alone, with what they carry: a
\* session of p fetches after p's cursor, rewrites for a shadow peer, signs,
\* and hands the batch to p.pushUpdates; doLocalPush goes on beside it.
MaxShadowRows == 2    \* rows the local write path appends beside the sessions

ShadowMxids == {"@u:master.example", "@u:master.example:8448"}
ShadowAddress == "a@x.example"
NoSgBatch == [sent |-> FALSE, assocs |-> << >>, maxId |-> None]

\* LocalAssociationStore.getAssociationsAfterId builds its association
\* objects anew from the rows on every call: what a caller does to the
\* objects it got (pusher.py:74) does not reach the rows.
RowsAfterFetch(stored, fetched) == stored

\* pusher.py:112-144.  The routine of p up to its yield on pushUpdates.
sessionPush(p) ==
    LET b == Pusher_getSignedAssociationsAfterId(lastSentAssocsId[p],
                                                  Some(ASSOCIATIONS_PUSH_LIMIT), shadow(p))
    IN /\ ~sgBatch[p].sent
       /\ DOMAIN b.assocs # {}
       /\ sgBatch' = [sgBatch EXCEPT ![p] = [sent |-> TRUE, assocs |-> b.assocs,
                                             maxId |-> b.maxId]]
       /\ localAssocs' = RowsAfterFetch(localAssocs, b.assocs)
       /\ UNCHANGED <<globalAssocs, localPeer, localCall, shadowHs, lastSentAssocsId,
                      LocalFrame>>

\* pusher.py:144-149.  The push is confirmed and the cursor persisted.
sessionConfirmed(p) ==
    /\ sgBatch[p].sent
    /\ lastSentAssocsId' = [lastSentAssocsId EXCEPT ![p] = TheId(sgBatch[p].maxId)]
    /\ sgBatch' = [sgBatch EXCEPT ![p] = NoSgBatch]
    /\ UNCHANGED <<localVars, shadowHs, LocalFrame>>

\* pusher.py:150-154.  The push fails.
sessionFailed(p) ==
    /\ sgBatch[p].sent
    /\ sgBatch' = [sgBatch EXCEPT ![p] = NoSgBatch]
    /\ UNCHANGED <<localVars, shadowHs, lastSentAssocsId, LocalFrame>>

\* Any configuration of the shadow hosts.
SignInit ==
    /\ PusherInit /\ RemoteIdle /\ VerifyIdle
    /\ localAssocs = << >>
    /\ globalAssocs = [a \in Addresses |-> NoMapping]
    /\ localPeer = [lastId |-> -1]
    /\ localCall = NoCall
    /\ shadowHs \in [master : {None, Some("master.example")},
                     slave : {None, Some("slave.example")}]
    /\ lastSentAssocsId = [p \in Peers |-> 0]
    /\ sgBatch = [p \in Peers |-> NoSgBatch]

SignNext ==
    \/ \E mxid \in {None} \cup {Some(x) : x \in ShadowMxids} :
           Len(localAssocs) < MaxShadowRows /\ writeAssociation(ShadowAddress, mxid)
    \/ \E p \in Peers : sessionPush(p)
    \/ \E p \in Peers : sessionConfirmed(p)
    \/ \E p \in Peers : sessionFailed(p)
    \/ \E order \in KeyOrders(PendingIds) : doLocalPush(order)

SignSpec == SignInit /\ [][SignNext]_vars

\* ------------------------------------------------------------------ claims
\* The action properties below are written "the step keeps G, or it is not a
\* step of A", which is A => G with the cheaper side first; a step that leaves
\* sessions[p] alone is no step of a session of p.
InFlight(p) == sessions[p] # << >>
Other(p) == Peers \ {p}
Tick == \E raises \in SUBSET Peers : scheduledPush(raises)
Caught_up(p) == FetchBatch(lastSent[p], shadow(p)).push_data = NoBatch
\* What a persist of the batch push_data has to leave in the cursors cur.
BatchEnd(cur, push_data) ==
    [c \in Cats |-> IF push_data[c] = {} THEN cur[c] ELSE Max(push_data[c])]
\* A step of a session of p, of any kind (each of them moves the session on
\* and none inserts a row).
SessionStep(p) ==
    rows' = rows /\ sessions'[p] # sessions[p] /\ \E i \in 1..Len(sessions[p]) :
        \/ \E t \in Times : pushSucceeded(p, i, t) \/ pushFailed(p, i, t)
        \/ \E raises \in BOOLEAN : persistSucceeded(p, i, raises)
        \/ persistFailed(p, i)
\* The step changes nothing that belongs to p.
Untouched(p) ==
    /\ sessions'[p] = sessions[p]
    /\ lastSent'[p] = lastSent[p]
    /\ lastPokeSucceededAt'[p] = lastPokeSucceededAt[p]
    /\ is_being_pushed_to'[p] = is_being_pushed_to[p]
    /\ sentUnconfirmed'[p] = sentUnconfirmed[p]
    /\ done'[p] = done[p]

\* C1: single-flight.  At most one push session per peer is active at any
\* time, and a tick that fires while a session of a peer is in flight changes
\* nothing of that peer: no new session (so no fetch and no pushUpdates call)
\* and no cursor or timestamp is persisted.
C1_SingleFlight ==
    /\ [](\A p \in Peers : Len(sessions[p]) <= 1)
    /\ [][\A p \in Peers : InFlight(p) => (Untouched(p) \/ ~Tick)]_vars

\* A tick has fired while p was awaiting its delivery: q's session started
\* after a row was inserted that p's session, still on its first call, has
\* not seen.
C1_Witness ==
    \E p \in Peers : \E q \in Other(p) :
        /\ InFlight(p) /\ InFlight(q)
        /\ sessions[p][1].pc = "await" /\ sessions[p][1].h.calls = 1
        /\ ~sessions[p][1].h.clean
        /\ sessions[q][1].h.clean /\ sessions[q][1].h.calls = 1

\* C2: no row is marked sent before it is confirmed.  No row is ever behind
\* a persisted cursor without having been in a batch the peer acknowledged;
\* the persist call of a session is under way only after the success outcome
\* of the same batch; and the cursors change only in the step that persists
\* such a batch, over rows of that batch only.
C2_ConfirmedBeforeSent ==
    /\ [](\A p \in Peers, c \in Cats : sentUnconfirmed[p][c] = {})
    /\ [](\A p \in Peers : \A i \in 1..Len(sessions[p]) :
            sessions[p][i].pc = "persist" => sessions[p][i].result = "response")
    /\ [][\A p \in Peers : lastSent'[p] # lastSent[p] =>
              \E i \in 1..Len(sessions[p]) :
                  /\ sessions[p][i].pc = "persist"
                  /\ sessions[p][i].result = "response"
                  /\ \A c \in Cats : (lastSent[p][c] + 1)..lastSent'[p][c]
                                         \subseteq sessions[p][i].push_data[c]]_vars

\* A first batch is confirmed and persisted, the second one is confirmed and
\* its persist call is under way.
C2_Witness ==
    \E p \in Peers :
        /\ InFlight(p) /\ sessions[p][1].pc = "persist"
        /\ sessions[p][1].h.calls = 2
        /\ \E c \in Cats : lastSent[p][c] > 0

\* What a failed delivery or a failed persist of session i of p leaves.
C3_AfterFailure(p, i) ==
    /\ lastSent'[p] = lastSent[p]
    /\ ~InFlight(p)'
    /\ sessions[p][i].h.fresh =>
          FetchBatch(lastSent'[p], shadow(p)).push_data = sessions[p][i].push_data
\* What a persist of session i of p leaves when the next fetch raises.
C3_AfterRaise(p, i) ==
    /\ lastSent'[p] = BatchEnd(lastSent[p], sessions[p][i].push_data)
    /\ ~InFlight(p)'
\* What a tick leaves of a peer that had no session: it persists nothing, and
\* the session it starts sends the batch after the persisted cursors.
C3_AfterTick(p, raises) ==
    /\ lastSent'[p] = lastSent[p]
    /\ p \in raises => ~InFlight(p)'
    /\ InFlight(p)' =>
          sessions'[p][1].push_data = FetchBatch(lastSent[p], shadow(p)).push_data

\* C3: a failed delivery, or any exception in the session, ends the session
\* with the cursors as they were before that iteration, and if no row was
\* inserted since the failed batch was fetched, a tick's next session fetches
\* and sends that same batch.
C3_FailureKeepsCursors ==
    [][\A p \in Peers :
        /\ \A i \in 1..Len(sessions[p]) :
              \/ sessions'[p] = sessions[p]
              \/ C3_AfterFailure(p, i)
              \/ ~((\E t \in Times : pushFailed(p, i, t)) \/ persistFailed(p, i))
        /\ \A i \in 1..Len(sessions[p]) :
              \/ sessions'[p] = sessions[p]
              \/ C3_AfterRaise(p, i)
              \/ ~persistSucceeded(p, i, TRUE)
        /\ \A raises \in SUBSET Peers :
              InFlight(p) \/ C3_AfterTick(p, raises) \/ ~scheduledPush(raises)
      ]_vars

\* A session has failed on its second batch: the first batch is persisted,
\* the third association is still to be sent.
C3_Witness ==
    \E p \in Peers :
        /\ done[p].exit = "failed" /\ ~InFlight(p)
        /\ lastSent[p]["sg_assocs"] = 2 /\ rows["sg_assocs"] = 3

\* C4: the flag of a peer is false before its first session, true exactly
\* while a session that passed the guard is between its start and its end,
\* and false again after it, whatever the exit path.
C4_FlagIffInFlight ==
    \A p \in Peers : is_being_pushed_to[p] <=> InFlight(p)

\* One peer's session has failed, the other's has drained its backlog with a
\* delivery, and both flags are down again.
C4_Witness ==
    \E p \in Peers : \E q \in Other(p) :
        /\ done[p].exit = "failed" /\ ~is_being_pushed_to[p]
        /\ done[q].exit = "drained" /\ done[q].calls = 1 /\ ~is_being_pushed_to[q]

\* C5: monotonic cursors.  No step lowers a persisted cursor of any peer in
\* any category, also when the persisted batch had no rows in that category.
C5_MonotonicCursors ==
    [][\A p \in Peers, c \in Cats : lastSent'[p][c] >= lastSent[p][c]]_vars

\* A batch with associations but no invite tokens is confirmed and being
\* persisted for a peer whose invite-token cursor is already positive.
C5_Witness ==
    \E p \in Peers :
        /\ InFlight(p) /\ sessions[p][1].pc = "persist"
        /\ sessions[p][1].ids["invite_tokens"] = None
        /\ sessions[p][1].ids["sg_assocs"] # None
        /\ lastSent[p]["invite_tokens"] > 0

\* What a clean session i of p has done when its persist step ends it.
C6_Drained(p, i) ==
    /\ sessions[p][i].h.calls = sessions[p][i].h.need
    /\ lastSent'[p] = rows
    /\ done'[p] = [exit |-> "drained", calls |-> sessions[p][i].h.need, clean |-> TRUE]
\* What a tick whose fetches do not raise does for a peer with no session.
C6_Started(p) ==
    IF NewHistory(p).need = 0
    THEN ~InFlight(p)' /\ lastSent[p] = rows
    ELSE InFlight(p)' /\ sessions'[p][1].h.calls = 1

Replicated(p) ==
    \A c \in Cats : lastSent[p][c] = rows[c] /\ sentUnconfirmed[p][c] = {}

Startable(Q) == Q \in peers /\ ~InFlight(Q) /\ ~Caught_up(Q)
\* The ticks that matter to Q: no routine raises, or the routine of another
\* peer does (a routine runs, and can raise, when its peer passes the guard).
RaisingBeside(Q) == {{}} \cup {{P} : P \in {P \in peers \ {Q} : ~InFlight(P)}}

\* C8: cross-peer isolation.  In every state, whatever sessions of other
\* peers are in flight, have failed or have raised, the tick can fire and
\* start a session for a peer Q that has none in flight and has unsent rows,
\* also when the routine of another peer raises in that tick; and no step of
\* a session of P, whatever its outcome, changes anything of another peer Q.
C8_Isolation ==
    /\ [](\A Q \in Peers : Startable(Q) =>
            \A raises \in RaisingBeside(Q) :
                ENABLED (scheduledPush(raises) /\ InFlight(Q)' /\ is_being_pushed_to'[Q]))
    /\ [][\A P \in Peers : \A Q \in Other(P) :
              Untouched(Q) \/ ~SessionStep(P)]_vars

\* P is still awaiting its first delivery, fetched before the last insert,
\* and Q has meanwhile run a whole session that started after that insert.
C8_Witness ==
    \E P \in Peers : \E Q \in Other(P) :
        /\ InFlight(P) /\ sessions[P][1].pc = "await"
        /\ sessions[P][1].h.calls = 1 /\ ~sessions[P][1].h.fresh
        /\ \A c \in Cats : lastSent[P][c] = 0
        /\ done[Q] = [exit |-> "drained", calls |-> 1, clean |-> TRUE]
        /\ lastSent[Q] = rows

\* What a tick leaves of a peer it finds caught up.
C9_NoOpAtTick(p) ==
    /\ ~InFlight(p)'
    /\ lastSent'[p] = lastSent[p]
    /\ lastPokeSucceededAt'[p] = lastPokeSucceededAt[p]
\* What the persist of session i of p leaves when the next fetch is empty.
C9_NoOpAfterPersist(p, i) ==
    /\ ~InFlight(p)'
    /\ lastSent'[p] = BatchEnd(lastSent[p], sessions[p][i].push_data)
    /\ lastPokeSucceededAt'[p] = sessions[p][i].poke

\* C9: caught-up no-op.  An iteration whose three fetches return no row ends
\* the session without a delivery call and without a persist call: at a tick
\* the peer's cursors and timestamp stay as they are, and
\* after a persisted batch nothing but that batch's persist is written.
C9_CaughtUpNoOp ==
    [][\A p \in Peers :
        /\ (p \in peers /\ ~InFlight(p) /\ Caught_up(p)) =>
              \/ C9_NoOpAtTick(p)
              \/ \A raises \in SUBSET Other(p) : ~scheduledPush(raises)
        /\ \A i \in 1..Len(sessions[p]) :
              (sessions[p][i].pc = "persist" /\ sessions'[p] # sessions[p]
                                             /\ Caught_up(p)') =>
                  (C9_NoOpAfterPersist(p, i) \/ ~persistSucceeded(p, i, FALSE))
      ]_vars

\* A tick has found a peer caught up that had been sent rows before.
C9_Witness ==
    \E p \in Peers :
        /\ done[p] = [exit |-> "drained", calls |-> 0, clean |-> TRUE]
        /\ lastSent[p] = rows /\ Sum3(rows) >= 1
        /\ lastPokeSucceededAt[p] # "never"

\* C10: atomic cursor persistence.  While a batch is in flight none of its
\* rows is behind a persisted cursor in any category, and the one step that
\* changes a peer's cursors moves all three of them to the ends of the
\* confirmed batch, so no state has one category at the confirmed batch and
\* another at the previous one.
C10_AtomicPersist ==
    /\ [](\A p \in Peers : \A i \in 1..Len(sessions[p]) : \A c \in Cats :
            \A r \in sessions[p][i].push_data[c] : r > lastSent[p][c])
    /\ [][\A p \in Peers : lastSent'[p] # lastSent[p] =>
              \E i \in 1..Len(sessions[p]) :
                  /\ sessions[p][i].pc = "persist"
                  /\ lastSent'[p] = BatchEnd(lastSent[p], sessions[p][i].push_data)]_vars

\* A batch with a row of each category has been persisted by a session that
\* made one call.
C10_Witness ==
    \E p \in Peers :
        /\ done[p] = [exit |-> "drained", calls |-> 1, clean |-> TRUE]
        /\ lastSent[p] = rows
        /\ \A c \in Cats : rows[c] >= 1

\* ------------------------------------------------ claims on RemotePeer
CallEnded(k) == remotePush[k].phase = "end"
Outcome(k) == remotePush[k].updateDeferred
GotResponse(k) == remotePush[k].code # 0
Non2xx(k) == GotResponse(k) /\ ~(remotePush[k].code \in 200..299)
\* The body was read and is JSON text.
JsonBody(k) == remotePush[k].body \in {"{\"errcode\": \"M_UNKNOWN\"}", "{}"}
ParsedBody(k) ==
    IF remotePush[k].body = "{}" THEN {} ELSE {<<"errcode", "M_UNKNOWN">>}
C11_SuccessIff2xx(k) ==
    /\ Outcome(k).kind = "callback" <=> (GotResponse(k) /\ remotePush[k].code \in 200..299)
    /\ Outcome(k).kind = "callback" => Outcome(k).result = Response(remotePush[k].code)
    /\ Outcome(k).kind \in {"callback", "errback"}
C11_TransportFailure(k) ==
    ~GotResponse(k) =>
        /\ remotePush[k].error \in TransportErrors
        /\ Outcome(k).kind = "errback"
        /\ Outcome(k).result = Failure(remotePush[k].error)
C11_NeverRaises == \A k \in 1..Len(remotePush) : ~remotePush[k].raised

\* C11 as stated: success iff the status is in [200,300); for ANY other
\* status a failure carrying the JSON-parsed body in RemotePeerError.errorDict;
\* for a transport failure a failure carrying the transport error; nothing
\* raised out of pushUpdates.
C11_AsStated ==
    /\ C11_NeverRaises
    /\ \A k \in 1..Len(remotePush) : CallEnded(k) =>
          /\ C11_SuccessIff2xx(k)
          /\ C11_TransportFailure(k)
          /\ Non2xx(k) =>
                /\ Outcome(k).kind = "errback"
                /\ Outcome(k).result.exc = "RemotePeerError"
                /\ JsonBody(k) /\ Outcome(k).result.errorDict = ParsedBody(k)

\* C11, amended: success iff the status is in [200,300); for any other status
\* a failure, which carries the JSON-parsed body (RemotePeerError.errorDict)
\* when the body was read and is JSON, the ValueError of the parse when the
\* body is not JSON, and the read's error when the body read failed; for a
\* transport failure a failure carrying the transport error; nothing raised
\* out of pushUpdates.
C11_OutcomeMapping ==
    /\ C11_NeverRaises
    /\ \A k \in 1..Len(remotePush) : CallEnded(k) =>
          /\ C11_SuccessIff2xx(k)
          /\ C11_TransportFailure(k)
          /\ Non2xx(k) =>
                /\ Outcome(k).kind = "errback"
                /\ Outcome(k).result =
                      IF remotePush[k].body = NoBody THEN Failure(remotePush[k].error)
                      ELSE IF JsonBody(k) THEN RemotePeerError(ParsedBody(k))
                      ELSE Failure("ValueError")

\* Two calls have ended, one on a 2xx response and one on a non-2xx response
\* with a JSON body.
C11_Witness ==
    \E k, j \in 1..Len(remotePush) :
        /\ CallEnded(k) /\ remotePush[k].code = 299 /\ Outcome(k).kind = "callback"
        /\ CallEnded(j) /\ remotePush[j].code = 300 /\ JsonBody(j)
        /\ Outcome(j).result.errorDict = {<<"errcode", "M_UNKNOWN">>}

\* C20: exactly-once outcome.  The deferred a pushUpdates call returned is
\* fired exactly once, by callback or by errback, when the request (and, for
\* a non-2xx status, the body read) has resolved, and not before: also when
\* the body of a non-2xx response is not JSON and when the body read fails.
C20_ExactlyOnce ==
    \A k \in 1..Len(remotePush) :
        /\ Outcome(k).fires <= 1
        /\ CallEnded(k) <=> Outcome(k).fires = 1
        /\ Outcome(k).fires = 1 <=> Outcome(k).kind \in {"callback", "errback"}
        /\ Outcome(k).fires = 0 <=> Outcome(k).kind = "none"

\* One call has ended on a non-2xx response whose body is not JSON, another
\* on a body read that failed.
C20_Witness ==
    \E k, j \in 1..Len(remotePush) :
        /\ CallEnded(k) /\ Non2xx(k) /\ remotePush[k].body = "<html>Bad Gateway</html>"
        /\ Outcome(k).fires = 1
        /\ CallEnded(j) /\ Non2xx(j) /\ remotePush[j].error \in BodyReadErrors
        /\ Outcome(j).fires = 1

\* --------------------------------- claim on verifySignedAssociation
\* The key ids the record carries under the peer's server name, and under any.
KeyIdsUnder(assoc, name) ==
    IF name \in DOMAIN assoc.signatures THEN Range(assoc.signatures[name]) ELSE {}
KeyIdsFound(assoc) == UNION {KeyIdsUnder(assoc, name) : name \in DOMAIN assoc.signatures}
HasMatchingKeyId(assoc) == \E k \in KeyIdsUnder(assoc, servername) : startswith_alg_colon(k)

\* C12: verification rejection.  A record without a signatures member is
\* rejected with NoSignaturesException; a record with signatures but with no
\* key id beginning with "ed25519:" under the peer's server name is rejected
\* with NoMatchingSignatureException, which reports the key ids found and the
\* required server name; in every other case, and only then, the record goes
\* to the cryptographic verification.
C12_VerificationRejection ==
    Len(verifyCall) = 2 =>
        LET assoc == verifyCall[1]
            out == verifyCall[2]
        IN /\ ~assoc.hasSignatures => out.exc = "NoSignaturesException"
           /\ (assoc.hasSignatures /\ ~HasMatchingKeyId(assoc)) =>
                 /\ out.exc = "NoMatchingSignatureException"
                 /\ out.foundSigs = KeyIdsFound(assoc)
                 /\ out.requiredServername = servername
           /\ out.verified <=> (assoc.hasSignatures /\ HasMatchingKeyId(assoc))

\* ------------------------------------------------- claims on LocalPeer
\* The store operations the last call made for the entry localId.
OpsFor(localId) == {i \in DOMAIN localCall.ops : localCall.ops[i].localId = localId}

\* C13: idempotent local apply.  Delivering a batch to LocalPeer.pushUpdates a
\* second time leaves the global store as the first delivery left it, for
\* every store state, every lastId and every batch; and an entry whose id is
\* not greater than lastId causes no store operation.
C13_IdempotentApply ==
    /\ [][(localCall.n = 1 /\ localCall'.n = 2) => globalAssocs' = globalAssocs]_vars
    /\ [](\A localId \in DOMAIN localCall.sgAssocs :
             localId <= localCall.lastId => OpsFor(localId) = {})

\* A batch with an entry at or below lastId and one above it was delivered
\* twice, and the first delivery changed the store.
C13_Witness ==
    /\ localCall.n = 2
    /\ \E i, j \in DOMAIN localCall.sgAssocs : i <= localCall.lastId /\ j > localCall.lastId
    /\ \E i \in DOMAIN localCall.ops : localCall.ops[i].had # localCall.ops[i].has

\* The entries of the last call's batch that pass the re-delivery guard.
Applied == {i \in DOMAIN localCall.sgAssocs : i > localCall.lastId}
Tombstones == {i \in Applied : localCall.sgAssocs[i].mxid = None}

\* C14: tombstone semantics.  An entry with null mxid that pushUpdates applies
\* makes one store operation, the removal of the mapping of its address, and
\* never an upsert: right after it the address has no mapping and no other
\* address has changed, so that the removal of a mapping that is not there
\* changes nothing; and the call resolves successfully.
C14_TombstoneRemoves ==
    /\ localCall.n >= 1 =>
          (localCall.deferred.fires = 1 /\ localCall.deferred.kind = "callback")
    /\ \A localId \in Tombstones :
          \E i \in DOMAIN localCall.ops :
              /\ OpsFor(localId) = {i}
              /\ localCall.ops[i].op = "removeAssociation"
              /\ localCall.ops[i].address = localCall.sgAssocs[localId].address
              /\ ~localCall.ops[i].has
              /\ localCall.ops[i].others

\* A call applied a tombstone for an address that was mapped and one for an
\* address that was not.
C14_Witness ==
    \E i, j \in DOMAIN localCall.ops :
        /\ {localCall.ops[i].localId, localCall.ops[j].localId} \subseteq Tombstones
        /\ localCall.ops[i].had /\ ~localCall.ops[i].has
        /\ ~localCall.ops[j].had /\ ~localCall.ops[j].has

\* C18: last-writer-wins in local apply.  pushUpdates applies the entries of
\* a batch in ascending row-id order, so that after the call every address the
\* batch has applied entries for is as the one with the highest row id says
\* (mapped by it, or unmapped when it is a tombstone), for every batch and
\* every key order.
C18_LastWriterWins ==
    localCall.n = 1 =>
        \A a \in Addresses :
            LET ids == {i \in Applied : localCall.sgAssocs[i].address = a}
                top == localCall.sgAssocs[Max(ids)]
            IN ids # {} =>
                  globalAssocs[a] = IF top.mxid = None THEN NoMapping
                                    ELSE Mapping(top.mxid, server_name, Max(ids))

\* ------------------------------------------------- claim on doLocalPush
\* The step is a doLocalPush: it leaves the rows alone, and is the call that
\* localCall' records.
DoLocalPushStep ==
    /\ localAssocs' = localAssocs
    /\ doLocalPush(localCall'.order)

\* What the step, a doLocalPush, has to have done for the pending row i.
C15_RowApplied(i, address) ==
    LET row == localAssocs[i]
        pendingFor == {j \in 1..Len(localAssocs) :
                          j > LocalPeer_init.lastId /\ localAssocs[j].address = address}
    IN /\ \E k \in DOMAIN localCall'.ops :
             /\ {n \in DOMAIN localCall'.ops : localCall'.ops[n].localId = i} = {k}
             /\ localCall'.ops[k].address = address
             /\ localCall'.ops[k].op =
                   IF row.mxid = None THEN "removeAssociation" ELSE "addAssociation"
       /\ pendingFor = {i} =>
             globalAssocs'[address] = IF row.mxid = None THEN NoMapping
                                      ELSE Mapping(row.mxid, server_name, i)

\* C15: read-after-write.  When doLocalPush returns, every local association
\* row with an id above the global store's highest id of this server has been
\* applied to the global store, a live row by an upsert under this server's
\* name and the row's id, a tombstone by a removal, in the one step doLocalPush
\* is (no round trip, no suspension), however many rows are pending.
C15_ReadAfterWrite ==
    [][DoLocalPushStep
         => \A i \in 1..Len(localAssocs) :
               i > LocalPeer_init.lastId => C15_RowApplied(i, localAssocs[i].address)]_vars

\* doLocalPush has applied three pending rows at once.
C15_Witness ==
    /\ Len(localAssocs) = 3
    /\ Len(localCall.ops) = 3
    /\ localCall.lastId = -1

\* ------------------------------------ claims on signing and shadowing
Configured == shadowHs.master # None /\ shadowHs.slave # None
InBatch(p) == DOMAIN sgBatch[p].assocs
\* The content a signature has to be over for the entry e.
ContentOf(e) == [address |-> e.address, mxid |-> e.mxid]

\* C16: every association entry of a batch that a session hands to a peer's
\* pushUpdates carries this server's signature, and the signature is over the
\* entry as it is transmitted: a shadow rewrite comes before the signing.
C16_SignedAsSent ==
    \A p \in Peers : \A localId \in InBatch(p) :
        LET e == sgBatch[p].assocs[localId]
        IN /\ e.signatures.signer = server_name
           /\ e.signatures.over = ContentOf(e)

\* The shadow peer has been handed an entry whose mxid was rewritten.
C16_Witness ==
    \E localId \in InBatch("p2") :
        /\ sgBatch["p2"].assocs[localId].mxid = Some("@u:slave.example")
        /\ localAssocs[localId].mxid = Some("@u:master.example")

\* C19: shadow rewriting is confined to shadow peers.  An entry's mxid is the
\* row's with the master's name replaced by the slave's if and only if the
\* batch was fetched for a peer with shadow set and both shadow hosts are
\* configured, and is the row's own otherwise; a tombstone stays a tombstone;
\* non-shadow peers and the local peer get the row's own mxid whatever
\* sessions of shadow peers run beside them, and no row is changed.
C19_ShadowConfined ==
    /\ [](\A p \in Peers : \A localId \in InBatch(p) :
             LET e == sgBatch[p].assocs[localId]
                 row == localAssocs[localId]
             IN /\ row.mxid = None => e.mxid = None
                /\ row.mxid # None =>
                      e.mxid = IF shadow(p) /\ Configured
                               THEN Some(replace_master_slave(TheId(row.mxid)))
                               ELSE row.mxid
                /\ ~shadow(p) => e.mxid = row.mxid)
    /\ [](\A localId \in DOMAIN localCall.sgAssocs :
             localCall.sgAssocs[localId].mxid = localAssocs[localId].mxid)
    /\ [][\A i \in 1..Len(localAssocs) : localAssocs'[i] = localAssocs[i]]_vars

\* The same master-domain row is in flight to the shadow peer, rewritten, and
\* to the other peer, as it is, and the local peer has had it as it is; a
\* tombstone is in flight to the shadow peer.
C19_Witness ==
    \E i \in InBatch("p1") \cap InBatch("p2") \cap DOMAIN localCall.sgAssocs :
        /\ localAssocs[i].mxid = Some("@u:master.example:8448")
        /\ sgBatch["p2"].assocs[i].mxid = Some("@u:slave.example:8448")
        /\ sgBatch["p1"].assocs[i].mxid = localAssocs[i].mxid
        /\ \E j \in InBatch("p2") : localAssocs[j].mxid = None

\* ------------------------------------------- claim on the loop's next fetch
\* The session of p goes from its persist call into its next pushUpdates call.
C17_NextIteration(p) ==
    /\ sessions'[p] # sessions[p]
    /\ sessions[p] # << >> /\ sessions[p][1].pc = "persist"
    /\ sessions'[p] # << >> /\ sessions'[p][1].pc = "await"

=============================================================================
